---- MODULE Spec2Model ----
(***************************************************************************)
(* tele-crossover-bot: the persisted watchlist and its add/remove          *)
(* operations (app.py, bot.py), the batch alerter (alerts.py) and the      *)
(* live per-minute subscription loop (bot.py); the crossover detector      *)
(* called on its own; the alerter ended and started again; and the add     *)
(* and /track handlers running in several threads.                         *)
(*                                                                         *)
(* A Python str is a sequence of one-character strings, so that strip(),   *)
(* upper() and split(",") are computed and not assumed.                    *)
(***************************************************************************)
EXTENDS Integers, Sequences, FiniteSets, TLC

VARIABLES
    env,            \* the WATCHLIST environment variable (a str)
    wlFile,         \* watchlist.json: [exists, valid, data]
    started,        \* the processes whose start-up code has run
    resp,           \* the last command's reply, with what it did
    \* alerts.py
    last_signals,   \* {symbol: {timeframe: state}}
    signalsFile,    \* signals.json: [exists, valid, data]
    pcB,            \* where the alerter is: sleep, run, scan, send, write, crashed
    pending,        \* scheduled jobs still to run in this run_pending()
    wi, ti,         \* check_signals: position in WATCHLIST and in the timeframes
    status,         \* check_signals: the classification just computed
    prev_status,    \* check_signals: the stored state it was compared with
    messages,       \* check_signals: the alert lines so far
    fault,          \* what raised, when the alerter has terminated
    \* what the current (or last) call of check_signals has done
    sentCycle,      \* the messages it sent
    wroteCycle,     \* whether it opened signals.json for writing
    examined,       \* the pairs it classified: [symbol, tf, status, stored]
    startSignals,   \* last_signals when it was called
    startFile,      \* signals.json when it was called
    startWatchlist, \* the persisted watchlist when it was called
    \* bot.py: live subscriptions
    subscriptions,  \* {symbol: [chat_id, ...]}, in insertion order: <<[sym, chats], ...>>
    last_cross_state, \* {symbol: {"minute": state}}
    pcL,            \* where dynamic_crossover_loop is: top, iter, send, dead
    itPos,          \* the dict iterator: the next item of subscriptions
    itSize,         \* the dict iterator: len(subscriptions) when it was made
    chatPos,        \* the position of "for chat_id in chat_ids"
    minute_cross,   \* the classification just computed
    liveSent,       \* the alerts sent for the item at hand: [chat, sym, state]
    \* get_crossover called on its own
    table,          \* the table yf.download returns
    verdict,        \* what each of the three get_crossover returns for it
    \* handlers that run in threads of their own
    reqs,           \* app.py: each POST /add_stock in progress, with its locals
    workers,        \* bot.py: each /track in progress, with its locals
    \* alerts.py: one schedule.run_pending()
    firstRun        \* in its second call of check_signals: what the first
                    \* classified and the second has not classified yet

alertLocals == <<wi, ti, status, prev_status, messages>>
cycleLog == <<sentCycle, wroteCycle, examined, startSignals, startFile, startWatchlist>>
alertVars == <<last_signals, signalsFile, pcB, pending, fault, alertLocals, cycleLog>>
watchVars == <<wlFile, started, resp>>
liveVars == <<subscriptions, last_cross_state, pcL, itPos, itSize, chatPos,
              minute_cross, liveSent>>
detVars == <<table, verdict>>
threadVars == <<reqs, workers>>
tickVars == <<firstRun>>
otherVars == <<detVars, threadVars, tickVars>>

(***************************************************************************)
(* str methods                                                             *)
(***************************************************************************)
UpperChar(c) ==
    CASE c = "a" -> "A"
      [] c = "b" -> "B"
      [] OTHER -> c

\* str.upper()
Upper(s) == [i \in 1..Len(s) |-> UpperChar(s[i])]

RECURSIVE LStrip(_)
LStrip(s) == IF s # <<>> /\ Head(s) = " " THEN LStrip(Tail(s)) ELSE s

RECURSIVE RStrip(_)
RStrip(s) ==
    IF s # <<>> /\ s[Len(s)] = " " THEN RStrip(SubSeq(s, 1, Len(s) - 1)) ELSE s

\* str.strip()
Strip(s) == RStrip(LStrip(s))

\* str.split(","): "" splits into [""]
RECURSIVE SplitComma(_)
SplitComma(s) ==
    IF \A i \in 1..Len(s) : s[i] # ","
    THEN <<s>>
    ELSE LET k == CHOOSE i \in 1..Len(s) :
                      s[i] = "," /\ \A j \in 1..(i - 1) : s[j] # ","
         IN  <<SubSeq(s, 1, k - 1)>> \o SplitComma(SubSeq(s, k + 1, Len(s)))

\* x in lst
In(x, lst) == \E i \in 1..Len(lst) : lst[i] = x

(***************************************************************************)
(* Inputs                                                                  *)
(***************************************************************************)
\* Values of the WATCHLIST environment variable: unset, "b", "a,A" (one
\* symbol in two cases) and " b ,,b" (blanks, an empty part, a repetition).
EnvChoices ==
    { <<>>,
      <<"b">>,
      <<"a", ",", "A">>,
      <<" ", "b", " ", ",", ",", "b">> }

\* What a user types as SYMBOL in a form field or after a bot command.
RawInputs ==
    { <<>>, <<" ">>, <<"a">>, <<" ", "A", " ">>, <<"b">> }

\* How an attempt to write a JSON file ends: written, open() raised (the
\* file is as it was), or the write raised after open() truncated the file.
WriteOutcomes == {"ok", "open_fails", "write_fails"}

(***************************************************************************)
(* The persisted watchlist (app.py; bot.py holds the same functions)       *)
(***************************************************************************)
NoFile == [exists |-> FALSE, valid |-> FALSE, data |-> <<>>]

\* open(path, "w") then json.dump(lst, f)
WriteJson(file, lst, outcome) ==
    CASE outcome = "ok" -> [exists |-> TRUE, valid |-> TRUE, data |-> lst]
      [] outcome = "open_fails" -> file
      [] OTHER -> [exists |-> TRUE, valid |-> FALSE, data |-> <<>>]

\* [s.strip().upper() for s in lst if s.strip()]
Normalized(lst) ==
    LET kept == SelectSeq(lst, LAMBDA s : Strip(s) # <<>>)
    IN  [i \in 1..Len(kept) |-> Upper(Strip(kept[i]))]

\* [s.strip().upper() for s in ENV_WATCHLIST.split(",") if s.strip()]
EnvSymbols(e) == Normalized(SplitComma(e))

load_watchlist(file, e) ==
    IF file.exists /\ file.valid
    THEN Normalized(file.data)
    ELSE IF e # <<>> THEN EnvSymbols(e) ELSE <<>>

\* save_watchlist(lst): the file afterwards; it returns outcome = "ok"
save_watchlist(file, lst, outcome) == WriteJson(file, lst, outcome)

\* bot.py norm(sym)
norm(sym) == Upper(Strip(sym))

\* request.form.get('symbol', '').strip().upper() in add_stock
AddStockSymbol_NoUpper(raw) == Strip(raw)
AddStockSymbol(raw) == Upper(Strip(raw))

\* request.form.get('symbol', '').strip().upper() in remove_stock
RemoveStockSymbol(raw) == Upper(Strip(raw))

\* "if symbol not in watchlist" of remove_stock
RemoveRejects_Never(symbol, watchlist) == FALSE
RemoveRejects(symbol, watchlist) == ~In(symbol, watchlist)

\* [s for s in watchlist if s != symbol]
Without(watchlist, symbol) == SelectSeq(watchlist, LAMBDA s : s # symbol)

\* msg.text.split(maxsplit=1) has a second part
HasArgument(raw) == Strip(raw) # <<>>

Reply(op, raw, sym, code, body, wrote) ==
    [op |-> op, raw |-> raw, sym |-> sym, status |-> code, body |-> body,
     wrote |-> wrote, fileBefore |-> wlFile,
     listBefore |-> load_watchlist(wlFile, env)]

\* The start-up code of app.py (__main__) and of bot.py (module level):
\* create watchlist.json from the environment when it does not exist.
Startup(proc) ==
    /\ proc \notin started
    /\ started' = started \cup {proc}
    /\ IF wlFile.exists
       THEN wlFile' = wlFile
       ELSE \E outcome \in WriteOutcomes :
                wlFile' = WriteJson(wlFile, EnvSymbols(env), outcome)
    /\ resp' = Reply("startup", <<>>, <<>>, 0, "none", ~wlFile.exists)
    /\ UNCHANGED <<env, otherVars, alertVars, liveVars>>

\* POST /add_stock
add_stock ==
    /\ "app" \in started
    /\ \E raw \in RawInputs :
        LET symbol == AddStockSymbol(raw)
            watchlist == load_watchlist(wlFile, env)
        IN  IF symbol = <<>>
            THEN /\ resp' = Reply("add_stock", raw, symbol, 400, "required", FALSE)
                 /\ wlFile' = wlFile
            ELSE IF In(symbol, watchlist)
            THEN /\ resp' = Reply("add_stock", raw, symbol, 400, "already", FALSE)
                 /\ wlFile' = wlFile
            ELSE \E outcome \in WriteOutcomes :
                 /\ wlFile' = save_watchlist(wlFile, Append(watchlist, symbol), outcome)
                 /\ resp' = IF outcome = "ok"
                            THEN Reply("add_stock", raw, symbol, 200, "added", TRUE)
                            ELSE Reply("add_stock", raw, symbol, 500, "failed", TRUE)
    /\ UNCHANGED <<env, otherVars, started, alertVars, liveVars>>

\* POST /remove_stock
remove_stock ==
    /\ "app" \in started
    /\ \E raw \in RawInputs :
        LET symbol == RemoveStockSymbol(raw)
            watchlist == load_watchlist(wlFile, env)
        IN  IF symbol = <<>>
            THEN /\ resp' = Reply("remove_stock", raw, symbol, 400, "required", FALSE)
                 /\ wlFile' = wlFile
            ELSE IF RemoveRejects(symbol, watchlist)
            THEN /\ resp' = Reply("remove_stock", raw, symbol, 400, "notfound", FALSE)
                 /\ wlFile' = wlFile
            ELSE \E outcome \in WriteOutcomes :
                 /\ wlFile' = save_watchlist(wlFile, Without(watchlist, symbol), outcome)
                 /\ resp' = IF outcome = "ok"
                            THEN Reply("remove_stock", raw, symbol, 200, "removed", TRUE)
                            ELSE Reply("remove_stock", raw, symbol, 500, "failed", TRUE)
    /\ UNCHANGED <<env, otherVars, started, alertVars, liveVars>>

\* bot command /addstock SYMBOL
handle_add ==
    /\ "bot" \in started
    /\ \E raw \in RawInputs :
        IF ~HasArgument(raw)
        THEN /\ resp' = Reply("handle_add", raw, <<>>, 0, "usage", FALSE)
             /\ wlFile' = wlFile
        ELSE LET sym == norm(raw)
                 wl == load_watchlist(wlFile, env)
             IN  IF In(sym, wl)
                 THEN /\ resp' = Reply("handle_add", raw, sym, 0, "already", FALSE)
                      /\ wlFile' = wlFile
                 ELSE \E outcome \in WriteOutcomes :
                      /\ wlFile' = save_watchlist(wlFile, Append(wl, sym), outcome)
                      /\ resp' = IF outcome = "ok"
                                 THEN Reply("handle_add", raw, sym, 0, "added", TRUE)
                                 ELSE Reply("handle_add", raw, sym, 0, "failed", TRUE)
    /\ UNCHANGED <<env, otherVars, started, alertVars, liveVars>>

\* bot command /removestock SYMBOL
handle_remove ==
    /\ "bot" \in started
    /\ \E raw \in RawInputs :
        IF ~HasArgument(raw)
        THEN /\ resp' = Reply("handle_remove", raw, <<>>, 0, "usage", FALSE)
             /\ wlFile' = wlFile
        ELSE LET sym == norm(raw)
                 wl == load_watchlist(wlFile, env)
             IN  IF ~In(sym, wl)
                 THEN /\ resp' = Reply("handle_remove", raw, sym, 0, "notfound", FALSE)
                      /\ wlFile' = wlFile
                 ELSE \E outcome \in WriteOutcomes :
                      /\ wlFile' = save_watchlist(wlFile, Without(wl, sym), outcome)
                      /\ resp' = IF outcome = "ok"
                                 THEN Reply("handle_remove", raw, sym, 0, "removed", TRUE)
                                 ELSE Reply("handle_remove", raw, sym, 0, "failed", TRUE)
    /\ UNCHANGED <<env, otherVars, started, alertVars, liveVars>>

(***************************************************************************)
(* app.py: POST /add_stock requests handled by threads of the server       *)
(***************************************************************************)
\* The requests in progress together
Requests == {1, 2}

NoRequest == [pc |-> "idle", symbol |-> <<>>, watchlist |-> <<>>, status |-> 0,
              body |-> "none"]

\* add_stock up to "watchlist = load_watchlist()"
add_stock_load(r) ==
    /\ "app" \in started
    /\ reqs[r].pc = "idle"
    /\ \E raw \in RawInputs :
        LET symbol == AddStockSymbol(raw)
        IN  IF symbol = <<>>
            THEN reqs' = [reqs EXCEPT ![r] =
                     [@ EXCEPT !.pc = "done", !.status = 400, !.body = "required"]]
            ELSE reqs' = [reqs EXCEPT ![r] =
                     [@ EXCEPT !.pc = "loaded", !.symbol = symbol,
                               !.watchlist = load_watchlist(wlFile, env)]]
    /\ UNCHANGED <<env, watchVars, alertVars, liveVars, detVars, tickVars, workers>>

\* add_stock from "if symbol in watchlist" to its return
add_stock_save(r) ==
    /\ reqs[r].pc = "loaded"
    /\ LET symbol == reqs[r].symbol
           watchlist == reqs[r].watchlist
       IN  IF In(symbol, watchlist)
           THEN /\ reqs' = [reqs EXCEPT ![r] =
                       [@ EXCEPT !.pc = "done", !.status = 400, !.body = "already"]]
                /\ wlFile' = wlFile
           ELSE \E outcome \in WriteOutcomes :
                /\ wlFile' = save_watchlist(wlFile, Append(watchlist, symbol), outcome)
                /\ reqs' = [reqs EXCEPT ![r] =
                       IF outcome = "ok"
                       THEN [@ EXCEPT !.pc = "done", !.status = 200, !.body = "added",
                                      !.watchlist = Append(watchlist, symbol)]
                       ELSE [@ EXCEPT !.pc = "done", !.status = 500, !.body = "failed",
                                      !.watchlist = Append(watchlist, symbol)]]
    /\ UNCHANGED <<env, started, resp, alertVars, liveVars, detVars, tickVars, workers>>

(***************************************************************************)
(* alerts.py: the batch alerter                                            *)
(***************************************************************************)
\* dict.get(k, default)
Get(d, k, default) == IF k \in DOMAIN d THEN d[k] ELSE default

\* d[k] = v
Put(d, k, v) == [x \in DOMAIN d \cup {k} |-> IF x = k THEN v ELSE d[x]]

\* [s.strip() for s in (os.getenv("WATCHLIST") or "").split(",") if s.strip()]
WATCHLIST ==
    LET kept == SelectSeq(SplitComma(env), LAMBDA s : Strip(s) # <<>>)
    IN  [i \in 1..Len(kept) |-> Strip(kept[i])]

\* for tf, period in (("1d", "1y"), ("1h", "60d"))
Timeframes == <<"1d", "1h">>

MinBars == 205

\* Values of a moving average
MaxPrice == 2
Prices == 1..MaxPrice

\* What yf.download returns to alerts.py: the number of rows, and the two
\* averages at the last two rows (read only from a frame of MinBars rows).
Frames ==
    [len : {MinBars},
     prev50 : Prices, prev200 : Prices, latest50 : Prices, latest200 : Prices]
    \cup
    [len : {0, MinBars - 1},
     prev50 : {1}, prev200 : {1}, latest50 : {1}, latest200 : {1}]

\* alerts.py get_crossover, after the download
get_crossover_alerts(df) ==
    IF df.len = 0 \/ df.len < MinBars THEN "None"
    ELSE IF df.prev50 < df.prev200 /\ df.latest50 > df.latest200 THEN "Golden Cross"
    ELSE IF df.prev50 > df.prev200 /\ df.latest50 < df.latest200 THEN "Death Cross"
    ELSE "None"

\* last_signals.get(symbol, {}).get(tf, "None")
StoredStatus(signals, symbol, tf) == Get(Get(signals, symbol, <<>>), tf, "None")

\* if status != prev_status and status != "None"
IsAlert_AnyChange(st, prev) == st # prev
IsAlert_NoDedup(st, prev) == st # "None"
IsAlert(st, prev) == st # prev /\ st # "None"

\* if messages:
HasMessages_Always(msgs) == TRUE
HasMessages_Never(msgs) == FALSE
HasMessages(msgs) == msgs # <<>>

\* f"{symbol} ({tf}): {emoji} {status}"
Line(symbol, tf, st) ==
    [symbol |-> symbol, tf |-> tf,
     emoji |-> IF st = "Golden Cross" THEN "check" ELSE "cross", status |-> st]

\* last_signals.setdefault(symbol, {})[tf] = status
SetStatus_Forget(signals, symbol, tf, st) == signals
SetStatus(signals, symbol, tf, st) ==
    Put(signals, symbol, Put(Get(signals, symbol, <<>>), tf, st))

NoSignalsFile == [exists |-> FALSE, valid |-> FALSE, data |-> <<>>]

\* The pair that a sweep classifies at its i-th turn
PairAt(i) ==
    <<WATCHLIST[((i - 1) \div Len(Timeframes)) + 1],
      Timeframes[((i - 1) % Len(Timeframes)) + 1]>>

\* No call of check_signals came before this one in this run_pending()
NoFirstRun == [first |-> FALSE, same |-> FALSE, rest |-> <<>>, sent |-> FALSE]

\* What the call that has returned classified, in the order of the sweep,
\* and whether it sent a message; kept when get_crossover answered as a
\* function of the pair, as it does when called twice on the same bars.
Classified(pairs, sent) ==
    LET statuses == [i \in 1..Len(pairs) |-> pairs[i].status]
    IN  IF \A i, j \in 1..Len(pairs) : PairAt(i) = PairAt(j) => statuses[i] = statuses[j]
        THEN [first |-> FALSE, same |-> TRUE, rest |-> statuses, sent |-> sent # <<>>]
        ELSE NoFirstRun

\* The second call has classified one more pair as st
Compared(run, st) ==
    IF ~run.same THEN run
    ELSE IF st = Head(run.rest) THEN [run EXCEPT !.rest = Tail(@)]
    ELSE NoFirstRun

\* schedule.run_pending(): the hourly job, the daily job or both are due
run_pending ==
    /\ pcB = "sleep"
    /\ \E due \in 1..2 : pending' = due
    /\ firstRun' = NoFirstRun
    /\ pcB' = "run"
    /\ UNCHANGED <<env, detVars, threadVars, watchVars, liveVars, last_signals, signalsFile, fault, alertLocals, cycleLog>>

\* run_pending() has run every due job: time.sleep(60)
sleep ==
    /\ pcB = "run"
    /\ pending = 0
    /\ pcB' = "sleep"
    /\ firstRun' = NoFirstRun
    /\ UNCHANGED <<env, detVars, threadVars, watchVars, liveVars, last_signals, signalsFile, pending, fault,
                   alertLocals, cycleLog>>

\* check_signals() is called: messages = []
check_signals_call ==
    /\ pcB = "run"
    /\ pending > 0
    /\ pending' = pending - 1
    /\ messages' = <<>>
    /\ wi' = 1
    /\ ti' = 1
    /\ pcB' = IF WATCHLIST # <<>> THEN "scan"
              ELSE IF HasMessages(<<>>) THEN "send" ELSE "run"
    /\ sentCycle' = <<>>
    /\ wroteCycle' = FALSE
    /\ examined' = <<>>
    /\ startSignals' = last_signals
    /\ startFile' = signalsFile
    /\ startWatchlist' = load_watchlist(wlFile, env)
    /\ firstRun' = IF pending = 2 THEN [NoFirstRun EXCEPT !.first = TRUE]
                   ELSE IF firstRun.first THEN Classified(examined, sentCycle)
                   ELSE NoFirstRun
    /\ UNCHANGED <<env, detVars, threadVars, watchVars, liveVars, last_signals, signalsFile, fault, status, prev_status>>

\* check_signals(): one turn of the inner loop, for WATCHLIST[wi] and
\* Timeframes[ti]; after the last pair, "if messages:".
check_signals_pair ==
    /\ pcB = "scan"
    /\ LET symbol == WATCHLIST[wi]
           tf == Timeframes[ti]
           last == wi = Len(WATCHLIST) /\ ti = Len(Timeframes)
       IN  \/ \* yf.download or the comparison raises: nothing catches it
              /\ pcB' = "crashed"
              /\ fault' = "fetch"
              /\ UNCHANGED <<last_signals, alertLocals, examined, firstRun>>
           \/ \E df \in Frames :
              LET st == get_crossover_alerts(df)
                  prev == StoredStatus(last_signals, symbol, tf)
              IN  /\ status' = st
                  /\ prev_status' = prev
                  /\ examined' = Append(examined,
                        [symbol |-> symbol, tf |-> tf, status |-> st, stored |-> prev])
                  /\ IF IsAlert(st, prev)
                     THEN /\ messages' = Append(messages, Line(symbol, tf, st))
                          /\ last_signals' = SetStatus(last_signals, symbol, tf, st)
                     ELSE UNCHANGED <<messages, last_signals>>
                  /\ ti' = IF ti = Len(Timeframes) THEN 1 ELSE ti + 1
                  /\ wi' = IF ti = Len(Timeframes) THEN wi + 1 ELSE wi
                  /\ pcB' = IF ~last THEN "scan"
                            ELSE IF HasMessages(messages') THEN "send" ELSE "run"
                  /\ fault' = fault
                  /\ firstRun' = Compared(firstRun, st)
    /\ UNCHANGED <<env, detVars, threadVars, watchVars, liveVars, signalsFile, pending, sentCycle, wroteCycle,
                   startSignals, startFile, startWatchlist>>

\* bot.send_message(CHAT_ID, text, parse_mode="Markdown")
check_signals_send ==
    /\ pcB = "send"
    /\ \/ /\ sentCycle' = Append(sentCycle, messages)
          /\ pcB' = "write"
          /\ fault' = fault
       \/ \* the send raises: nothing catches it
          /\ pcB' = "crashed"
          /\ fault' = "send"
          /\ sentCycle' = sentCycle
    /\ UNCHANGED <<env, otherVars, watchVars, liveVars, last_signals, signalsFile, pending, alertLocals,
                   wroteCycle, examined, startSignals, startFile, startWatchlist>>

\* with open(SIGNALS_FILE, "w") as f: json.dump(last_signals, f, indent=2)
check_signals_write ==
    /\ pcB = "write"
    /\ \E outcome \in WriteOutcomes :
        /\ signalsFile' = WriteJson(signalsFile, last_signals, outcome)
        /\ pcB' = IF outcome = "ok" THEN "run" ELSE "crashed"
        /\ fault' = IF outcome = "ok" THEN fault ELSE "write"
    /\ wroteCycle' = TRUE
    /\ UNCHANGED <<env, otherVars, watchVars, liveVars, last_signals, pending, alertLocals, sentCycle,
                   examined, startSignals, startFile, startWatchlist>>

\* The process is killed (or the machine stops), wherever it is
kill ==
    /\ pcB # "crashed"
    /\ pcB' = "crashed"
    /\ fault' = "killed"
    /\ UNCHANGED <<env, otherVars, watchVars, liveVars, last_signals, signalsFile, pending,
                   alertLocals, cycleLog>>

\* json.load(f) of the module's start: {} when signals.json is not found
LoadSignals(file) == IF file.exists THEN file.data ELSE <<>>

\* alerts.py is started again, up to "while True". Only FileNotFoundError
\* is caught: a signals.json that is not valid JSON ends the process again.
restart ==
    /\ pcB = "crashed"
    /\ IF signalsFile.exists /\ ~signalsFile.valid
       THEN /\ fault' = "load"
            /\ UNCHANGED <<last_signals, pcB, pending>>
       ELSE /\ last_signals' = LoadSignals(signalsFile)
            /\ pcB' = "sleep"
            /\ pending' = 0
            /\ fault' = "none"
    /\ firstRun' = NoFirstRun
    /\ UNCHANGED <<env, detVars, threadVars, watchVars, liveVars, signalsFile, alertLocals, cycleLog>>

(***************************************************************************)
(* bot.py: /track and the live per-minute loop                             *)
(***************************************************************************)
\* The chats that send /track
Chats == {1, 2}

SlowWindow == 200

\* The rows left by df.dropna(subset=["SMA50", "SMA200"]): rolling(200)
\* is undefined on the first 199 rows.
Surviving_NoWarmup(len) == len
Surviving(len) == IF len >= SlowWindow THEN len - (SlowWindow - 1) ELSE 0

\* What yf.download returns to bot.py, or that the download or the
\* computation raises: the number of rows, and the two averages at the last
\* two rows that dropna leaves (read only when it leaves two).
LiveFrames ==
    [raises : {FALSE}, len : {SlowWindow + 1},
     prev50 : Prices, prev200 : Prices, latest50 : Prices, latest200 : Prices]
    \cup
    [raises : {FALSE}, len : {0, SlowWindow - 1, SlowWindow},
     prev50 : {1}, prev200 : {1}, latest50 : {1}, latest200 : {1}]
    \cup
    [raises : {TRUE}, len : {0},
     prev50 : {1}, prev200 : {1}, latest50 : {1}, latest200 : {1}]

\* bot.py get_crossover
get_crossover(df) ==
    IF df.raises THEN "Error"
    ELSE IF df.len = 0 THEN "No data"
    ELSE IF Surviving(df.len) < 2 THEN "Not enough data"
    ELSE IF df.prev50 < df.prev200 /\ df.latest50 > df.latest200 THEN "Golden Cross"
    ELSE IF df.prev50 > df.prev200 /\ df.latest50 < df.latest200 THEN "Death Cross"
    ELSE "No Crossover"

\* Python's None
None == "<None>"

\* last_cross_state.get(sym, {}).get("minute")
LastMinute(states, sym) == Get(Get(states, sym, <<>>), "minute", None)

\* if minute_cross not in [None, "No Crossover", "Not enough data", "Error"]
\*    and minute_cross != last_minute
LiveAlert(cross, last_minute) ==
    /\ cross \notin {None, "No Crossover", "Not enough data", "Error"}
    /\ cross # last_minute

\* the position of sym among the keys of subscriptions, 0 when absent
KeyPos(subs, sym) ==
    IF \E i \in 1..Len(subs) : subs[i].sym = sym
    THEN CHOOSE i \in 1..Len(subs) : subs[i].sym = sym
    ELSE 0

\* bot command /track SYMBOL
handle_track ==
    /\ "bot" \in started
    /\ \E raw \in RawInputs, chat_id \in Chats :
        IF ~HasArgument(raw)
        THEN /\ resp' = Reply("handle_track", <<>>, <<>>, 0, "usage", FALSE)
             /\ subscriptions' = subscriptions
        ELSE LET sym == norm(raw)
                 \* subscriptions.setdefault(sym, [])
                 subs == IF KeyPos(subscriptions, sym) = 0
                         THEN Append(subscriptions, [sym |-> sym, chats |-> <<>>])
                         ELSE subscriptions
                 k == KeyPos(subs, sym)
             IN  IF ~In(chat_id, subs[k].chats)
                 THEN /\ subscriptions' =
                            [subs EXCEPT ![k].chats = Append(@, chat_id)]
                      /\ resp' = Reply("handle_track", <<>>, sym, 0, "subscribed", FALSE)
                 ELSE /\ subscriptions' = subs
                      /\ resp' = Reply("handle_track", <<>>, sym, 0, "already", FALSE)
    /\ UNCHANGED <<env, otherVars, wlFile, started, alertVars, last_cross_state, pcL, itPos,
                   itSize, chatPos, minute_cross, liveSent>>

\* The threads of the bot that handle commands together
Workers == {1, 2}

NoCommand == [pc |-> "idle", sym |-> <<>>, chat_id |-> 0, body |-> "none"]

\* handle_track up to "subscriptions.setdefault(sym, [])"
handle_track_begin(w) ==
    /\ "bot" \in started
    /\ workers[w].pc = "idle"
    /\ \E raw \in RawInputs, chat_id \in Chats :
        IF ~HasArgument(raw)
        THEN /\ workers' = [workers EXCEPT ![w] =
                    [@ EXCEPT !.pc = "done", !.body = "usage"]]
             /\ subscriptions' = subscriptions
        ELSE LET sym == norm(raw)
             IN  /\ workers' = [workers EXCEPT ![w] =
                        [@ EXCEPT !.pc = "check", !.sym = sym, !.chat_id = chat_id]]
                 /\ subscriptions' =
                        IF KeyPos(subscriptions, sym) = 0
                        THEN Append(subscriptions, [sym |-> sym, chats |-> <<>>])
                        ELSE subscriptions
    /\ UNCHANGED <<env, watchVars, alertVars, detVars, tickVars, reqs, last_cross_state, pcL,
                   itPos, itSize, chatPos, minute_cross, liveSent>>

\* handle_track: "if chat_id not in subscriptions[sym]"
handle_track_check(w) ==
    /\ workers[w].pc = "check"
    /\ LET k == KeyPos(subscriptions, workers[w].sym)
       IN  workers' = [workers EXCEPT ![w] =
               IF ~In(workers[w].chat_id, subscriptions[k].chats)
               THEN [@ EXCEPT !.pc = "append"]
               ELSE [@ EXCEPT !.pc = "done", !.body = "already"]]
    /\ UNCHANGED <<env, watchVars, alertVars, detVars, tickVars, reqs, liveVars>>

\* handle_track: "subscriptions[sym].append(chat_id)" and the reply
handle_track_append(w) ==
    /\ workers[w].pc = "append"
    /\ LET k == KeyPos(subscriptions, workers[w].sym)
       IN  subscriptions' =
               [subscriptions EXCEPT ![k].chats = Append(@, workers[w].chat_id)]
    /\ workers' = [workers EXCEPT ![w] = [@ EXCEPT !.pc = "done", !.body = "subscribed"]]
    /\ UNCHANGED <<env, watchVars, alertVars, detVars, tickVars, reqs, last_cross_state, pcL,
                   itPos, itSize, chatPos, minute_cross, liveSent>>

\* while True: for sym, chat_ids in subscriptions.items(): the iterator is made
loop_top ==
    /\ "bot" \in started
    /\ pcL = "top"
    /\ pcL' = "iter"
    /\ itPos' = 1
    /\ itSize' = Len(subscriptions)
    /\ UNCHANGED <<env, otherVars, watchVars, alertVars, subscriptions, last_cross_state,
                   chatPos, minute_cross, liveSent>>

\* The for statement takes the next item and the body runs up to the sends.
\* A dict that changed size since the iterator was made raises RuntimeError
\* at the for statement, outside the try.
loop_next ==
    /\ pcL = "iter"
    /\ IF Len(subscriptions) # itSize
       THEN /\ pcL' = "dead"
            /\ UNCHANGED <<itPos, chatPos, minute_cross, liveSent>>
       ELSE IF itPos > Len(subscriptions)
       THEN \* time.sleep(60)
            /\ pcL' = "top"
            /\ UNCHANGED <<itPos, chatPos, minute_cross, liveSent>>
       ELSE \E df \in LiveFrames :
            LET sym == subscriptions[itPos].sym
                cross == get_crossover(df)
            IN  /\ minute_cross' = cross
                /\ liveSent' = <<>>
                /\ IF LiveAlert(cross, LastMinute(last_cross_state, sym))
                   THEN /\ pcL' = "send"
                        /\ chatPos' = 1
                        /\ itPos' = itPos
                   ELSE /\ pcL' = "iter"
                        /\ chatPos' = chatPos
                        /\ itPos' = itPos + 1
    /\ UNCHANGED <<env, otherVars, watchVars, alertVars, subscriptions, last_cross_state,
                   itSize>>

\* for chat_id in chat_ids: bot.send_message(...), then the state is stored;
\* a send that raises is caught by the except of the loop body.
loop_send ==
    /\ pcL = "send"
    /\ LET sym == subscriptions[itPos].sym
           chat_ids == subscriptions[itPos].chats
       IN  IF chatPos > Len(chat_ids)
           THEN /\ last_cross_state' =
                      Put(last_cross_state, sym,
                          Put(Get(last_cross_state, sym, <<>>), "minute", minute_cross))
                /\ pcL' = "iter"
                /\ itPos' = itPos + 1
                /\ UNCHANGED <<chatPos, liveSent>>
           ELSE \/ /\ liveSent' = Append(liveSent,
                        [chat |-> chat_ids[chatPos], sym |-> sym, state |-> minute_cross])
                   /\ chatPos' = chatPos + 1
                   /\ UNCHANGED <<last_cross_state, pcL, itPos>>
                \/ /\ pcL' = "iter"
                   /\ itPos' = itPos + 1
                   /\ UNCHANGED <<last_cross_state, chatPos, liveSent>>
    /\ UNCHANGED <<env, otherVars, watchVars, alertVars, subscriptions, itSize, minute_cross>>

(***************************************************************************)
(* get_crossover called on its own (app.py, bot.py, alerts.py)             *)
(***************************************************************************)
\* What yf.download returns, or that the download or the computation
\* raises: the number of rows, and the two averages at the last two rows
\* (read only when both averages are defined at both rows).
DetectFrames ==
    [raises : {FALSE}, len : {SlowWindow + 1, MinBars - 1, MinBars},
     prev50 : Prices, prev200 : Prices, latest50 : Prices, latest200 : Prices]
    \cup
    [raises : {FALSE}, len : {0, 1, SlowWindow - 1, SlowWindow},
     prev50 : {1}, prev200 : {1}, latest50 : {1}, latest200 : {1}]
    \cup
    [raises : {TRUE}, len : {0},
     prev50 : {1}, prev200 : {1}, latest50 : {1}, latest200 : {1}]

\* app.py get_crossover
get_crossover_app(d) ==
    IF d.raises THEN "Error"
    ELSE IF d.len = 0 THEN "No data"
    ELSE IF Surviving(d.len) < 2 THEN "Not enough data"
    ELSE IF d.prev50 < d.prev200 /\ d.latest50 > d.latest200 THEN "Golden Cross"
    ELSE IF d.prev50 > d.prev200 /\ d.latest50 < d.latest200 THEN "Death Cross"
    ELSE "No Crossover"

\* get_crossover has not been called
NotCalled == "<not called>"

\* alerts.py get_crossover has no try: the exception leaves it
Raised == "<raised>"

NoVerdict == [app |-> NotCalled, bot |-> NotCalled, alerts |-> NotCalled]

\* app.py: get_crossover(symbol, interval)
detect_app ==
    /\ verdict.app = NotCalled
    /\ verdict' = [verdict EXCEPT !.app = get_crossover_app(table)]
    /\ UNCHANGED <<env, watchVars, alertVars, liveVars, threadVars, tickVars, table>>

\* bot.py: get_crossover(symbol, interval)
detect_bot ==
    /\ verdict.bot = NotCalled
    /\ verdict' = [verdict EXCEPT !.bot = get_crossover(table)]
    /\ UNCHANGED <<env, watchVars, alertVars, liveVars, threadVars, tickVars, table>>

\* alerts.py: get_crossover(symbol, interval, period)
detect_alerts ==
    /\ verdict.alerts = NotCalled
    /\ verdict' = [verdict EXCEPT !.alerts =
                      IF table.raises THEN Raised ELSE get_crossover_alerts(table)]
    /\ UNCHANGED <<env, watchVars, alertVars, liveVars, threadVars, tickVars, table>>

vars == <<env, watchVars, alertVars, liveVars, otherVars>>

InitWatch ==
    /\ wlFile = NoFile
    /\ started = {}
    /\ resp = [op |-> "none", raw |-> <<>>, sym |-> <<>>, status |-> 0,
               body |-> "none", wrote |-> FALSE, fileBefore |-> NoFile,
               listBefore |-> <<>>]

\* alerts.py at "while True": signals.json was not found
InitBatch ==
    /\ last_signals = <<>>
    /\ signalsFile = NoSignalsFile
    /\ pcB = "sleep"
    /\ pending = 0
    /\ wi = 1
    /\ ti = 1
    /\ status = "None"
    /\ prev_status = "None"
    /\ messages = <<>>
    /\ fault = "none"
    /\ sentCycle = <<>>
    /\ wroteCycle = FALSE
    /\ examined = <<>>
    /\ startSignals = <<>>
    /\ startFile = NoSignalsFile
    /\ startWatchlist = <<>>
    /\ firstRun = NoFirstRun

InitSubscriptions ==
    /\ subscriptions = <<>>
    /\ last_cross_state = <<>>
    /\ pcL = "top"
    /\ itPos = 1
    /\ itSize = 0
    /\ chatPos = 1
    /\ minute_cross = None
    /\ liveSent = <<>>

\* get_crossover is not being called on its own
InitDetector ==
    /\ table = [raises |-> FALSE, len |-> 0,
             prev50 |-> 1, prev200 |-> 1, latest50 |-> 1, latest200 |-> 1]
    /\ verdict = NoVerdict

\* No request and no command is being handled
InitThreads ==
    /\ reqs = [r \in Requests |-> NoRequest]
    /\ workers = [w \in Workers |-> NoCommand]

InitOthers ==
    /\ InitDetector
    /\ InitThreads

\* No process has run its start-up code yet
Init ==
    /\ env \in EnvChoices
    /\ InitWatch
    /\ InitBatch
    /\ InitSubscriptions
    /\ InitOthers

StartApp == Startup("app")
StartBot == Startup("bot")

\* The web app and the bot: the watchlist commands
NextWatch ==
    \/ StartApp
    \/ StartBot
    \/ add_stock
    \/ remove_stock
    \/ handle_add
    \/ handle_remove

SpecWatch == Init /\ [][NextWatch]_vars

\* The batch alerter
NextBatch ==
    \/ run_pending
    \/ sleep
    \/ check_signals_call
    \/ check_signals_pair
    \/ check_signals_send
    \/ check_signals_write

SpecBatch == Init /\ [][NextBatch]_vars

\* The bot's live subscriptions, from where bot.py has run its start-up code
\* and start_bot() has started the loop's thread. The WATCHLIST variable
\* plays no part in them: it is unset.
InitLive ==
    /\ env = <<>>
    /\ wlFile = WriteJson(NoFile, EnvSymbols(env), "ok")
    /\ started = {"bot"}
    /\ resp = [op |-> "startup", raw |-> <<>>, sym |-> <<>>, status |-> 0,
               body |-> "none", wrote |-> TRUE, fileBefore |-> NoFile,
               listBefore |-> <<>>]
    /\ InitBatch
    /\ InitSubscriptions
    /\ InitOthers

NextLive ==
    \/ handle_track
    \/ loop_top
    \/ loop_next
    \/ loop_send

SpecLive == InitLive /\ [][NextLive]_vars

\* The batch alerter beside the web app's watchlist commands, with one
\* configured symbol. check_signals never reads watchlist.json and the
\* commands never read the alerter's state, so a command handled during a
\* call of check_signals commutes with the steps of the call: the commands
\* are taken while the alerter sleeps.
InitPoll ==
    /\ env = <<"b">>
    /\ InitWatch
    /\ InitBatch
    /\ InitSubscriptions
    /\ InitOthers

NextPoll ==
    \/ pcB = "sleep" /\ StartApp
    \/ pcB = "sleep" /\ add_stock
    \/ pcB = "sleep" /\ remove_stock
    \/ run_pending
    \/ sleep
    \/ check_signals_call
    \/ check_signals_pair
    \/ check_signals_send
    \/ check_signals_write

SpecPoll == InitPoll /\ [][NextPoll]_vars

\* The batch alerter, with one configured symbol, killed and started again
NextRestart ==
    \/ run_pending
    \/ sleep
    \/ check_signals_call
    \/ check_signals_pair
    \/ check_signals_send
    \/ check_signals_write
    \/ kill
    \/ restart

SpecRestart == InitPoll /\ [][NextRestart]_vars

\* Two POST /add_stock handled together by the web app, from where app.py
\* has run its start-up code
InitAdds ==
    /\ env \in EnvChoices
    /\ wlFile = WriteJson(NoFile, EnvSymbols(env), "ok")
    /\ started = {"app"}
    /\ resp = [op |-> "startup", raw |-> <<>>, sym |-> <<>>, status |-> 0,
               body |-> "none", wrote |-> TRUE, fileBefore |-> NoFile,
               listBefore |-> <<>>]
    /\ InitBatch
    /\ InitSubscriptions
    /\ InitOthers

NextAdds ==
    \/ \E r \in Requests : add_stock_load(r)
    \/ \E r \in Requests : add_stock_save(r)

SpecAdds == InitAdds /\ [][NextAdds]_vars

\* Two /track commands handled together by the bot
NextTracks ==
    \/ \E w \in Workers : handle_track_begin(w)
    \/ \E w \in Workers : handle_track_check(w)
    \/ \E w \in Workers : handle_track_append(w)

SpecTracks == InitLive /\ [][NextTracks]_vars

\* The three get_crossover functions, each called once on a table
InitDetect ==
    /\ env = <<>>
    /\ InitWatch
    /\ InitBatch
    /\ InitSubscriptions
    /\ table \in DetectFrames
    /\ verdict = NoVerdict
    /\ InitThreads

NextDetect ==
    \/ detect_app
    \/ detect_bot
    \/ detect_alerts

SpecDetect == InitDetect /\ [][NextDetect]_vars

\* The three processes together. They share the WATCHLIST variable and
\* watchlist.json only, and each property below is stated of the
\* specification of the processes it is about.
Next ==
    \/ NextWatch
    \/ NextBatch
    \/ NextLive
    \/ NextRestart
    \/ NextAdds
    \/ NextTracks
    \/ NextDetect

Spec == Init /\ [][Next]_vars
(***************************************************************************)
(* Properties of the batch alerter (alerts.py)                             *)
(***************************************************************************)
Notable == {"Golden Cross", "Death Cross"}

\* A call of check_signals is over: it returned, or the process has died.
CallOver == pcB \in {"run", "sleep", "crashed"}

\* The pairs of this call whose classification is notable and differs from
\* the state stored when they were classified, in the order of the sweep.
ChangedPairs ==
    SelectSeq(examined, LAMBDA e : e.status \in Notable /\ e.status # e.stored)

\* C1: in one turn of the sweep of check_signals, a pair whose stored state
\* is Golden Cross (Death Cross) and whose new classification is the same
\* state adds no alert line; a pair whose new classification is the other
\* notable state adds exactly one alert line, that pair's, and its stored
\* state becomes the new classification.
C1_DuplicateSuppressedChangeAlerted ==
    [][ (pcB = "scan" /\ pcB' # "crashed" /\ <<wi, ti>>' # <<wi, ti>>) =>
        LET symbol == WATCHLIST[wi]
            tf == Timeframes[ti]
            stored == StoredStatus(last_signals, symbol, tf)
        IN  /\ (stored \in Notable /\ status' = stored) =>
                    /\ messages' = messages
                    /\ StoredStatus(last_signals', symbol, tf) = stored
            /\ (stored \in Notable /\ status' \in Notable /\ status' # stored) =>
                    /\ messages' = Append(messages, Line(symbol, tf, status'))
                    /\ StoredStatus(last_signals', symbol, tf) = status'
      ]_vars

\* C1 witness: a pair stored as Golden Cross has just been classified Death
\* Cross; its line is the last alert line and the store holds Death Cross.
C1_Witness ==
    /\ pcB \in {"scan", "send"}
    /\ prev_status = "Golden Cross"
    /\ status = "Death Cross"
    /\ messages # <<>>
    /\ messages[Len(messages)].status = "Death Cross"
    /\ \E sym \in DOMAIN last_signals : \E tf \in DOMAIN last_signals[sym] :
            /\ last_signals[sym][tf] = "Death Cross"
            /\ messages[Len(messages)].symbol = sym
            /\ messages[Len(messages)].tf = tf

\* C2: once a call of check_signals is over in which no pair was classified
\* as a notable state different from its stored state, the call has sent no
\* message, has not opened signals.json for writing, and last_signals and
\* signals.json are what they were when it was called.
C2_QuietCycleDoesNothing ==
    (CallOver /\ ChangedPairs = <<>>) =>
        /\ sentCycle = <<>>
        /\ ~wroteCycle
        /\ signalsFile = startFile
        /\ last_signals = startSignals

\* C2 witness: a call has returned in which a pair stored as a notable state
\* was classified as that same state, and no pair changed.
C2_Witness ==
    /\ pcB = "run"
    /\ ChangedPairs = <<>>
    /\ \E i \in 1..Len(examined) :
            examined[i].status \in Notable /\ examined[i].status = examined[i].stored
    /\ \E i \in 1..Len(examined) :
            examined[i].status = "None" /\ examined[i].stored \in Notable

\* C3: a call of check_signals sends at most one message; when at least one
\* pair changed it sends exactly one message, whose lines are the changed
\* pairs', and then writes the store to signals.json; the stored state of
\* every pair that did not change is what it was.
C3_OneAggregatedMessageThenPersist ==
    CallOver =>
        /\ Len(sentCycle) <= 1
        /\ ChangedPairs # <<>> =>
              /\ sentCycle =
                   << [i \in 1..Len(ChangedPairs) |->
                         Line(ChangedPairs[i].symbol, ChangedPairs[i].tf,
                              ChangedPairs[i].status)] >>
              /\ wroteCycle
              /\ signalsFile = [exists |-> TRUE, valid |-> TRUE, data |-> last_signals]
        /\ \A i \in 1..Len(WATCHLIST) : \A j \in 1..Len(Timeframes) :
              (\A k \in 1..Len(ChangedPairs) :
                    <<ChangedPairs[k].symbol, ChangedPairs[k].tf>>
                        # <<WATCHLIST[i], Timeframes[j]>>)
              => StoredStatus(last_signals, WATCHLIST[i], Timeframes[j])
                    = StoredStatus(startSignals, WATCHLIST[i], Timeframes[j])

\* C4: every state held in last_signals and in signals.json is Golden Cross
\* or Death Cross.
C4_OnlyNotableStored ==
    /\ \A sym \in DOMAIN last_signals : \A tf \in DOMAIN last_signals[sym] :
            last_signals[sym][tf] \in Notable
    /\ signalsFile.valid =>
         \A sym \in DOMAIN signalsFile.data : \A tf \in DOMAIN signalsFile.data[sym] :
            signalsFile.data[sym][tf] \in Notable

\* C4 witness: signals.json holds a state for a pair that has since been
\* classified "None" while a notable state was stored for it.
C4_Witness ==
    /\ signalsFile.valid
    /\ \E i \in 1..Len(examined) :
         /\ examined[i].status = "None"
         /\ examined[i].stored \in Notable
         /\ examined[i].symbol \in DOMAIN signalsFile.data
         /\ examined[i].tf \in DOMAIN signalsFile.data[examined[i].symbol]
    /\ pcB = "run"

\* C9: a failed fetch or computation for one symbol never ends the polling
\* loop, and the call in which it failed still examines every pair.
C9_LoopSurvivesSymbolFailure ==
    /\ ~(fault = "fetch" /\ pcB = "crashed")
    /\ (pcB \in {"run", "sleep"} /\ examined # <<>>) =>
            Len(examined) = Len(WATCHLIST) * Len(Timeframes)
\* The alerter is between two calls of check_signals
Idle == pcB \in {"run", "sleep"}

\* C16: when alerts.py is started again, after the process has ended at any
\* point, the store it loads from signals.json records, for every pair in
\* a message that the last call of check_signals sent, the state that the
\* message announced: the pair is not announced again while its
\* classification stays the same.
C16_RestartKeepsNotifiedStates ==
    [][ (pcB = "crashed" /\ pcB' = "sleep") =>
        \A m \in 1..Len(sentCycle) : \A k \in 1..Len(sentCycle[m]) :
            StoredStatus(last_signals', sentCycle[m][k].symbol, sentCycle[m][k].tf)
                = sentCycle[m][k].status
      ]_vars

\* C19: whenever the alerter is between two calls of check_signals,
\* signals.json is absent or valid JSON, and last_signals equals what
\* loading signals.json gives.
C19_IdleStoreEqualsFile ==
    Idle =>
        /\ signalsFile.exists => signalsFile.valid
        /\ last_signals = LoadSignals(signalsFile)

\* C19 witness: a call that changed the stored state of a pair has returned
\* and the alerter sleeps.
C19_Witness ==
    /\ pcB = "sleep"
    /\ fault = "none"
    /\ ChangedPairs # <<>>
    /\ wroteCycle
    /\ last_signals # startSignals
    /\ startSignals # <<>>
\* C20: when both jobs are due in one run_pending() and the second call of
\* check_signals gets, as far as it has got, the same classifications as
\* the first, the second call has collected no alert line, sent no message
\* and not written signals.json, and the store is as the first call left it.
C20_SecondRunInTickIsSilent ==
    firstRun.same =>
        /\ messages = <<>>
        /\ sentCycle = <<>>
        /\ ~wroteCycle
        /\ signalsFile = startFile
        /\ last_signals = startSignals

\* C20 witness: the second call has returned, having classified every pair
\* as the first call did, a notable state among them, and the first call
\* had sent a message.
C20_Witness ==
    /\ firstRun.same
    /\ firstRun.rest = <<>>
    /\ firstRun.sent
    /\ pcB = "run"
    /\ pending = 0
    /\ \E i \in 1..Len(examined) : examined[i].status \in Notable
(***************************************************************************)
(* Properties of the watchlist commands (app.py, bot.py)                   *)
(***************************************************************************)
NoDuplicates(lst) == \A i, j \in 1..Len(lst) : lst[i] = lst[j] => i = j

AddOps == {"add_stock", "handle_add"}
RemoveOps == {"remove_stock", "handle_remove"}

\* C6: an add (POST /add_stock, /addstock) of a symbol that, trimmed and
\* upper-cased, is already in the watchlist is rejected as already present,
\* with status 400 over HTTP; it does not call save_watchlist, and
\* watchlist.json and the list load_watchlist returns are as before.
C6_DuplicateAddRejected ==
    (resp.op \in AddOps /\ In(Upper(Strip(resp.raw)), resp.listBefore)) =>
        /\ resp.body = "already"
        /\ resp.op = "add_stock" => resp.status = 400
        /\ ~resp.wrote
        /\ wlFile = resp.fileBefore
        /\ load_watchlist(wlFile, env) = resp.listBefore

\* C6 witness: POST /add_stock with a symbol typed in lower case, whose
\* upper-case form is in watchlist.json, has been rejected.
C6_Witness ==
    /\ resp.op = "add_stock"
    /\ resp.raw # Upper(Strip(resp.raw))
    /\ wlFile.valid
    /\ In(Upper(Strip(resp.raw)), wlFile.data)
    /\ resp.body = "already"

\* C7: a remove (POST /remove_stock, /removestock) of a symbol that, trimmed
\* and upper-cased, is not in the watchlist is rejected, with status 400
\* over HTTP; it does not call save_watchlist, and watchlist.json and the
\* list load_watchlist returns are as before.
C7_AbsentRemoveRejected ==
    (resp.op \in RemoveOps /\ ~In(Upper(Strip(resp.raw)), resp.listBefore)) =>
        /\ resp.body \in {"notfound", "required", "usage"}
        /\ resp.op = "remove_stock" => resp.status = 400
        /\ ~resp.wrote
        /\ wlFile = resp.fileBefore
        /\ load_watchlist(wlFile, env) = resp.listBefore

\* C7 witness: POST /remove_stock of a symbol that is not in a non-empty
\* watchlist.json has been rejected as not found.
C7_Witness ==
    /\ resp.op = "remove_stock"
    /\ resp.body = "notfound"
    /\ wlFile.valid
    /\ wlFile.data # <<>>
    /\ ~In(Upper(Strip(resp.raw)), wlFile.data)

\* A watchlist command has replied that it succeeded
ReportsSuccess == resp.body \in {"added", "removed"}

\* What a successful command should have left in watchlist.json
SavedList ==
    IF resp.op \in AddOps THEN Append(resp.listBefore, resp.sym)
    ELSE Without(resp.listBefore, resp.sym)

\* C13: a failed write of a persisted file is reported and is not fatal. An
\* add or remove that replies success (status 200 over HTTP) has written
\* the new list to watchlist.json, so a failed write is never reported as
\* success; and a failed write of signals.json at the end of a call of
\* check_signals does not end the alerter.
C13_WriteFailureReportedNeverFatal ==
    /\ (resp.op \in AddOps \cup RemoveOps /\ (ReportsSuccess \/ resp.status = 200)) =>
          /\ ReportsSuccess
          /\ wlFile = [exists |-> TRUE, valid |-> TRUE, data |-> SavedList]
    /\ ~(pcB = "crashed" /\ fault = "write")

\* C8: once a process has run its start-up seeding, and after any adds and
\* removes, the list load_watchlist returns holds no symbol twice.
C8_WatchlistHasNoDuplicates ==
    started # {} => NoDuplicates(load_watchlist(wlFile, env))
\* C10: a call of check_signals that returns has examined, for both
\* timeframes, every symbol that was in the persisted watchlist when it was
\* called, and no other symbol (symbols compared in upper case): a symbol
\* added by add_stock is examined by the next call, a removed one is not.
C10_CycleExaminesPersistedWatchlist ==
    pcB \in {"run", "sleep"} =>
        /\ \A i \in 1..Len(startWatchlist) : \A j \in 1..Len(Timeframes) :
              \E k \in 1..Len(examined) :
                  /\ Upper(examined[k].symbol) = startWatchlist[i]
                  /\ examined[k].tf = Timeframes[j]
        /\ \A k \in 1..Len(examined) : In(Upper(examined[k].symbol), startWatchlist)

\* C17: when two POST /add_stock handled together, for two different
\* symbols that were not in the watchlist, have both replied success, both
\* symbols are in the persisted watchlist.
C17_ConcurrentAddsBothPersisted ==
    ( /\ \A r \in Requests : reqs[r].pc = "done" /\ reqs[r].body = "added"
      /\ reqs[1].symbol # reqs[2].symbol ) =>
        \A r \in Requests : In(reqs[r].symbol, load_watchlist(wlFile, env))

(***************************************************************************)
(* Properties of get_crossover                                             *)
(***************************************************************************)
\* Both averages are defined at the last two rows
TwoBars(d) == ~d.raises /\ d.len >= SlowWindow + 1

\* The slow average is the same at both rows, the fast average is higher at
\* the last row, and the last row is the first where fast is above slow.
RisesAboveSlow(d) ==
    /\ d.prev200 = d.latest200
    /\ d.prev50 < d.latest50
    /\ d.prev50 <= d.prev200
    /\ d.latest50 > d.latest200

\* The mirrored series: fast is lower at the last row, the first where it is
\* below slow.
FallsBelowSlow(d) ==
    /\ d.prev200 = d.latest200
    /\ d.prev50 > d.latest50
    /\ d.prev50 >= d.prev200
    /\ d.latest50 < d.latest200

\* C11: on a table whose fast average rises from bar to bar against a
\* constant slow average and is above it for the first time at the last
\* bar (also when it equalled slow at the bar before), each get_crossover
\* returns Golden Cross; on the mirrored table, Death Cross; and the
\* conditions of Golden Cross and Death Cross never both hold.
C11_CrossAtFirstBarBeyondSlow ==
    /\ \A who \in {"app", "bot"} :
          (verdict[who] # NotCalled /\ TwoBars(table)) =>
              /\ RisesAboveSlow(table) => verdict[who] = "Golden Cross"
              /\ FallsBelowSlow(table) => verdict[who] = "Death Cross"
    /\ (verdict.alerts # NotCalled /\ ~table.raises /\ table.len >= MinBars) =>
              /\ RisesAboveSlow(table) => verdict.alerts = "Golden Cross"
              /\ FallsBelowSlow(table) => verdict.alerts = "Death Cross"
    /\ ~ ( /\ table.prev50 < table.prev200 /\ table.latest50 > table.latest200
           /\ table.prev50 > table.prev200 /\ table.latest50 < table.latest200 )

C5_NeutralClassificationIsNoOp ==
    /\ minute_cross \in {"No Crossover", "Error", "No data"} => liveSent = <<>>
    /\ \A sym \in DOMAIN last_cross_state :
          LastMinute(last_cross_state, sym) \notin {"No Crossover", "Error", "No data"}

\* How many of the alerts in sent went to chat
SentTo(sent, chat) == Cardinality({k \in 1..Len(sent) : sent[k].chat = chat})

\* C14: when the loop leaves the sends of a symbol whose minute state has
\* changed to Golden Cross or Death Cross, every subscribed chat, other
\* than one whose own send raised, has been sent that alert exactly once;
\* and when any chat has been sent it, the state is stored as the symbol's
\* last minute state, so that no later pass sends it again.
C14_EverySubscriberAlertedOnce ==
    [][ (pcL = "send" /\ pcL' = "iter" /\ minute_cross \in Notable) =>
        LET sym == subscriptions[itPos].sym
            chat_ids == subscriptions[itPos].chats
        IN  /\ \A i \in 1..Len(chat_ids) :
                  i # chatPos => SentTo(liveSent', chat_ids[i]) = 1
            /\ \A k \in 1..Len(liveSent') :
                  liveSent'[k].sym = sym /\ liveSent'[k].state = minute_cross
            /\ liveSent' # <<>> => LastMinute(last_cross_state', sym) = minute_cross
      ]_vars

\* C15: the thread of dynamic_crossover_loop never ends, whatever /track
\* commands are handled while it iterates over subscriptions.
C15_LoopSurvivesTrack == pcL # "dead"

\* C18: in subscriptions, no list of chat ids holds a chat id twice,
\* whatever /track commands have been handled, one after the other or
\* together.
C18_NoChatSubscribedTwice ==
    \A i \in 1..Len(subscriptions) : NoDuplicates(subscriptions[i].chats)
====
